---------------------------- MODULE Spec2Model ----------------------------
(***************************************************************************)
(* Model of the reachy-mini motor controller.                              *)
(*                                                                         *)
(*   src/src/controller.rs    ReachyMiniMotorController: range validation  *)
(*                            and the grouped transport reads and writes.  *)
(*   src/src/control_loop.rs  ReachyMiniControlLoop: the constructor, the  *)
(*                            bounded command channel, the worker (run),   *)
(*                            the position cache and the retry counter.    *)
(*                                                                         *)
(* Angles are integers (degrees).  The timestamp of a snapshot is the      *)
(* value of a clock that advances by one at every timer tick.              *)
(***************************************************************************)
EXTENDS Integers, Sequences, FiniteSets, TLC

\* ------------------------------------------------------------------ bounds
\* Largest configured read_allowed_retries explored.
MaxRetries == 2
\* Timer ticks and push_command calls (over all producer threads) explored
\* after the worker has started.  The two event sources are independent, so
\* the runs explored are those with up to MaxTicks ticks and up to FewPushes
\* pushes, and those with up to MaxPush pushes and up to FewTicks ticks.
MaxTicks == 3
MaxPush == 3
FewTicks == 1
FewPushes == 1
\* Capacity the modelled channel is scaled down to (see Capacity).
MaxPending == 2
\* Calls of the controller's methods explored by SpecController.
MaxCalls == 1
VariantPushes == 1
\* With stats enabled: flush periods of 1..MaxPeriod read periods, up to
\* StatsTicks ticks and up to StatsPushes pushes.
MaxPeriod == 2
StatsTicks == 5
StatsPushes == 1
\* Calls of the methods of the Python class explored by SpecBindings.
PyCalls == 3
\* Pings left unanswered in one run of ping_all_motors.
MaxPingFailures == 5

\* --------------------------------------------------------- program constants
BODY_ROTATION_ID == 11
ANTENNA_LEFT_ID == 21
ANTENNA_RIGHT_ID == 22
STEWART_PLATFORM_IDS == <<1, 2, 3, 4, 5, 6>>
POSITION_MIN == -180
POSITION_MAX == 180
MAX_RETRIES == 3
\* mpsc::channel(100)
ChannelCapacity == 100

\* The capacity the model runs with: the code's, scaled down to MaxPending.
Capacity == IF ChannelCapacity < MaxPending THEN ChannelCapacity ELSE MaxPending

\* The producer threads that call push_command.
Producers == {1, 2}

\* ------------------------------------------------------------------ values
\* Result<FullBodyPosition, String> of the cache before the constructor has
\* stored anything in it.
Uninit == [tag |-> "Uninit"]

\* struct ControlLoopStats.
ControlLoopStats(period, rd, wd) ==
    [period |-> period, read_dt |-> rd, write_dt |-> wd]

\* FullBodyPosition { body_yaw, stewart, antennas, timestamp }
FullBodyPosition(body_yaw, stewart, antennas, timestamp) ==
    [body_yaw |-> body_yaw, stewart |-> stewart, antennas |-> antennas,
     timestamp |-> timestamp]

OkPos(p) == [tag |-> "Ok", pos |-> p]
ErrMsg(m) == [tag |-> "Err", msg |-> m]

\* What the bus answers to a grouped read of all 9 motors, in the order
\* [body_rotation, antenna_left, antenna_right, stewart_1..6]: every motor
\* reports a value of its own, so that a mix-up of motors shows.
RawPositions(b) == [i \in 1..9 |-> 10 * b + i]
ReadBases == {0, 1}

\* Outcomes of read_all_positions: both grouped reads answer, the first
\* (sts3215) fails, the second (xl330) fails, or the answers do not add up
\* to 9 values.
ReadOutcomes == {"ok", "v1_error", "v2_error", "bad_length"}

\* ------------------------------------------------ controller (controller.rs)
\* One grouped write put on the serial line: the protocol family, the
\* register, the bus addresses, the values, and whether the transport
\* reported success.
BusWrite(family, reg, ids, vals) ==
    [family |-> family, reg |-> reg, ids |-> ids, vals |-> vals, ok |-> TRUE]

\* The writes of `plan` a method issues when the transport fails the f-th of
\* them (f = 0: none fails).  Every write is followed by `?`: the first
\* failure returns, and the writes after it are not issued.
IssueWrites(plan, f) ==
    LET n == IF f \in 1..Len(plan) THEN f ELSE Len(plan)
    IN  [res    |-> IF f \in 1..Len(plan) THEN "TransportError" ELSE "Ok",
         issued |-> [i \in 1..n |-> [plan[i] EXCEPT !.ok = (i # f)]]]

Rejected == [res |-> "ValidationError", issued |-> <<>>]

\* validate_positions: TRUE for Ok(()), FALSE for the Err of the first
\* element out of bounds.
validate_positions_first_only(positions) ==
    Len(positions) = 0
    \/ ~(positions[1] < POSITION_MIN \/ positions[1] > POSITION_MAX)

validate_positions(positions) ==
    \A i \in 1..Len(positions) :
        ~(positions[i] < POSITION_MIN \/ positions[i] > POSITION_MAX)

set_all_goal_positions(positions, f) ==
    IF ~validate_positions(positions) THEN Rejected
    ELSE IssueWrites(
           << BusWrite("v1", "goal_position",
                       <<BODY_ROTATION_ID, ANTENNA_LEFT_ID, ANTENNA_RIGHT_ID>>,
                       SubSeq(positions, 1, 3)),
              BusWrite("v2", "goal_position", STEWART_PLATFORM_IDS,
                       SubSeq(positions, 4, 9)) >>, f)

set_antennas_positions(positions, f) ==
    IF ~validate_positions(positions) THEN Rejected
    ELSE IssueWrites(
           << BusWrite("v1", "goal_position",
                       <<ANTENNA_LEFT_ID, ANTENNA_RIGHT_ID>>, positions) >>, f)

set_stewart_platform_position(position, f) ==
    IF ~validate_positions(position) THEN Rejected
    ELSE IssueWrites(
           << BusWrite("v2", "goal_position", STEWART_PLATFORM_IDS,
                       position) >>, f)

set_body_rotation(position, f) ==
    IF ~validate_positions(<<position>>) THEN Rejected
    ELSE IssueWrites(
           << BusWrite("v1", "goal_position", <<BODY_ROTATION_ID>>,
                       <<position>>) >>, f)

\* A bool written to a register: 1 or 0.
Bit(enable) == IF enable THEN 1 ELSE 0

set_torque(enable, f) ==
    IssueWrites(
      << BusWrite("v1", "torque_enable",
                  <<BODY_ROTATION_ID, ANTENNA_LEFT_ID, ANTENNA_RIGHT_ID>>,
                  [i \in 1..3 |-> Bit(enable)]),
         BusWrite("v2", "torque_enable", STEWART_PLATFORM_IDS,
                  [i \in 1..6 |-> Bit(enable)]) >>, f)

enable_torque(f) == set_torque(TRUE, f)

disable_torque(f) == set_torque(FALSE, f)

set_stewart_platform_goal_current(current, f) ==
    IssueWrites(
      << BusWrite("v2", "goal_current", STEWART_PLATFORM_IDS, current) >>, f)

set_stewart_platform_operating_mode(mode, f) ==
    IssueWrites(
      << BusWrite("v2", "operating_mode", <<1, 2, 3, 4, 5, 6>>,
                  [i \in 1..6 |-> mode]) >>, f)

set_antennas_operating_mode(mode, f) ==
    IssueWrites(
      << BusWrite("v1", "mode", <<21, 22>>, [i \in 1..2 |-> mode]) >>, f)

set_body_rotation_operating_mode(mode, f) ==
    IssueWrites(<< BusWrite("v1", "mode", <<11>>, <<mode>>) >>, f)

enable_body_rotation(enable, f) ==
    IssueWrites(
      << BusWrite("v1", "torque_enable", <<11>>, <<Bit(enable)>>) >>, f)

enable_antennas(enable, f) ==
    IssueWrites(
      << BusWrite("v1", "torque_enable", <<21, 22>>,
                  [i \in 1..2 |-> Bit(enable)]) >>, f)

enable_stewart_platform(enable, f) ==
    IssueWrites(
      << BusWrite("v2", "torque_enable", <<1, 2, 3, 4, 5, 6>>,
                  [i \in 1..6 |-> Bit(enable)]) >>, f)

\* read_all_positions: the two grouped reads (sts3215, then xl330), each
\* followed by `?`, then the conversion of the collected values to [f64; 9].
read_all_positions_partial(outcome, raw) ==
    CASE outcome = "v1_error" -> ErrMsg("sts3215 read error")
      [] outcome = "v2_error" ->
           [tag |-> "Ok", val |-> [i \in 1..9 |-> IF i <= 3 THEN raw[i] ELSE 0]]
      [] outcome = "bad_length" -> ErrMsg("Expected 9 positions, got 8")
      [] OTHER -> [tag |-> "Ok", val |-> raw]

read_all_positions(outcome, raw) ==
    CASE outcome = "v1_error" -> ErrMsg("sts3215 read error")
      [] outcome = "v2_error" -> ErrMsg("xl330 read error")
      [] outcome = "bad_length" -> ErrMsg("Expected 9 positions, got 8")
      [] OTHER -> [tag |-> "Ok", val |-> raw]

\* ---------------------------------------------- commands (control_loop.rs)
\* enum MotorCommand: the variant and its payload.  A payload field keeps
\* its Rust name where that name has one type over all variants; the two
\* array payloads are named after the motors they address (stewart,
\* antennas), since TLC cannot compare records whose equally named fields
\* hold values of different types.
SetAllGoalPositions(positions) ==
    [kind |-> "SetAllGoalPositions", positions |-> positions]
SetStewartPlatformPosition(position) ==
    [kind |-> "SetStewartPlatformPosition", stewart |-> position]
SetBodyRotation(position) == [kind |-> "SetBodyRotation", position |-> position]
SetAntennasPositions(positions) ==
    [kind |-> "SetAntennasPositions", antennas |-> positions]
EnableTorque == [kind |-> "EnableTorque"]
DisableTorque == [kind |-> "DisableTorque"]
SetStewartPlatformGoalCurrent(current) ==
    [kind |-> "SetStewartPlatformGoalCurrent", current |-> current]
SetStewartPlatformOperatingMode(mode) ==
    [kind |-> "SetStewartPlatformOperatingMode", mode |-> mode]
SetAntennasOperatingMode(mode) ==
    [kind |-> "SetAntennasOperatingMode", mode |-> mode]
SetBodyRotationOperatingMode(mode) ==
    [kind |-> "SetBodyRotationOperatingMode", mode |-> mode]
EnableStewartPlatform(enable) ==
    [kind |-> "EnableStewartPlatform", enable |-> enable]
EnableBodyRotation(enable) == [kind |-> "EnableBodyRotation", enable |-> enable]
EnableAntennas(enable) == [kind |-> "EnableAntennas", enable |-> enable]

GoalKinds == {"SetAllGoalPositions", "SetStewartPlatformPosition",
              "SetBodyRotation", "SetAntennasPositions"}

\* handle_commands: the exhaustive match of the command on the controller's
\* methods; f is the transport write that fails (0: none).
handle_commands(command, f) ==
    CASE command.kind = "SetAllGoalPositions" ->
           set_all_goal_positions(
             << command.positions.body_yaw,
                command.positions.antennas[1], command.positions.antennas[2],
                command.positions.stewart[1], command.positions.stewart[2],
                command.positions.stewart[3], command.positions.stewart[4],
                command.positions.stewart[5], command.positions.stewart[6] >>, f)
      [] command.kind = "SetStewartPlatformPosition" ->
           set_stewart_platform_position(command.stewart, f)
      [] command.kind = "SetBodyRotation" ->
           set_body_rotation(command.position, f)
      [] command.kind = "SetAntennasPositions" ->
           set_antennas_positions(command.antennas, f)
      [] command.kind = "EnableTorque" -> enable_torque(f)
      [] command.kind = "DisableTorque" -> disable_torque(f)
      [] command.kind = "SetStewartPlatformGoalCurrent" ->
           set_stewart_platform_goal_current(command.current, f)
      [] command.kind = "SetStewartPlatformOperatingMode" ->
           set_stewart_platform_operating_mode(command.mode, f)
      [] command.kind = "SetAntennasOperatingMode" ->
           set_antennas_operating_mode(command.mode, f)
      [] command.kind = "SetBodyRotationOperatingMode" ->
           set_body_rotation_operating_mode(command.mode, f)
      [] command.kind = "EnableStewartPlatform" ->
           enable_stewart_platform(command.enable, f)
      [] command.kind = "EnableBodyRotation" ->
           enable_body_rotation(command.enable, f)
      [] command.kind = "EnableAntennas" ->
           enable_antennas(command.enable, f)

read_pos_swapped(r, t) ==
    IF r.tag = "Ok"
    THEN IF Len(r.val) = 9
         THEN OkPos(FullBodyPosition(
                r.val[1],
                << r.val[4], r.val[5], r.val[6], r.val[7], r.val[8], r.val[9] >>,
                << r.val[3], r.val[2] >>,
                t))
         ELSE ErrMsg("Unexpected positions length")
    ELSE ErrMsg(r.msg)

\* read_pos: the 9 values of read_all_positions as a FullBodyPosition stamped
\* with the time t of the read, or the error as a string.
read_pos(r, t) ==
    IF r.tag = "Ok"
    THEN IF Len(r.val) = 9
         THEN OkPos(FullBodyPosition(
                r.val[1],
                << r.val[4], r.val[5], r.val[6], r.val[7], r.val[8], r.val[9] >>,
                << r.val[2], r.val[3] >>,
                t))
         ELSE ErrMsg("Unexpected positions length")
    ELSE ErrMsg(r.msg)

\* The commands the modelled callers push: scenario 4's body rotations, one
\* out-of-range command per goal-position setter, and a command that is no
\* goal position and takes two transport writes.
Commands ==
    { SetBodyRotation(10),
      SetBodyRotation(20),
      SetBodyRotation(POSITION_MAX + 1),
      SetAntennasPositions(<<0, POSITION_MIN - 1>>),
      SetStewartPlatformPosition(<<0, 0, 0, 0, POSITION_MAX + 1, 0>>),
      SetAllGoalPositions(
        FullBodyPosition(0, <<3, 4, 5, POSITION_MIN - 1, 7, 8>>, <<1, 2>>, 0)),
      EnableTorque }

\* The number of transport writes a command's method issues when none fails.
NWrites(command) == Len(handle_commands(command, 0).issued)

\* ------------------------------------------------------------------- state
VARIABLES
    phase,                 \* where the control loop is in its life:
                           \*   "new"        new() has been called
                           \*   "opened"     the controller is open, the
                           \*                initial read is being tried
                           \*   "ctor_panic" new() panicked (open or ping)
                           \*   "ctor_err"   new() returned Err
                           \*   "running"    new() returned the handle, the
                           \*                worker runs
                           \*   "panicked"   the worker thread has panicked
                           \*   "direct"     no control loop: the controller
                           \*                is used through its own methods
                           \*   "python"     no control loop: the controller
                           \*                is used through the Python class
                           \*   "open"       ReachyMiniMotorController::new
                           \*                has been called
                           \*   "pinging"    the port is open, new is in
                           \*                ping_all_motors
                           \*   "controller_ok"   new returned Ok(controller)
                           \*   "controller_err"  new returned Err
                           \*   "functions"  no worker: read_pos and
                           \*                handle_commands are applied to
                           \*                the controller one after the
                           \*                other
    read_allowed_retries,  \* the configured retry threshold
    init_i,                \* read_pos_with_retries: the loop variable i
    error_count,           \* run: error_count
    last_position,         \* the Arc<Mutex<Result<FullBodyPosition, String>>>
    queue,                 \* the channel's buffered commands, oldest first
    waiters,               \* blocking_send calls waiting for a permit, oldest
                           \* first: [p |-> producer, command |-> command]
    now,                   \* timer ticks elapsed since the worker started
    tx,                    \* the handle's Sender: "held" by the callers or
                           \* "dropped" with the handle
    stats_pub_period,      \* new's Option<Duration>: 0 for None, else the
                           \* flush period, in read periods
    last_stats,            \* the ControlLoopStats of the Arc<Mutex<..>>
    read_dt,               \* run: the local buffer read_dt
    write_dt,              \* run: the local buffer write_dt
    stats_t0,              \* run: stats_t0, in read periods since the
                           \* worker started
    worker,                \* where the worker is in run, when its steps
                           \* are followed one by one: [pc |-> ..], with
                           \* res, the value to store, while it is kept
    bus,                   \* the transport operations in progress on the
                           \* serial line: [by |-> thread, op |-> ..]
    locks,                 \* the threads (one at most) holding each mutex
    callers,               \* what each calling thread is in the middle of
    wire,                  \* the grouped writes issued on the serial line
    accepted,              \* history: commands whose push returned Ok
    refused,               \* history: how many pushes returned Err
    handled,               \* history: commands passed to handle_commands
    before,                \* history: the cache right after the last
                           \* successful read (the initial one or a tick's)
    failsSince,            \* history: failed tick reads since that read
    evTick,                \* history: what the last timer tick did
    evCmd                  \* history: what the last handle_commands (or the
                           \* last call of a controller method) did

vars == << phase, read_allowed_retries, init_i, error_count, last_position,
           queue, waiters, now, tx, stats_pub_period, last_stats, read_dt,
           write_dt, stats_t0, worker, bus, locks, callers, wire, accepted, refused, handled, before,
           failsSince,
                    evTick, evCmd >>

statsVars == << stats_pub_period, last_stats, read_dt, write_dt, stats_t0 >>

stepVars == << worker, bus, locks, callers >>

loopVars == << statsVars, stepVars, read_allowed_retries, init_i, error_count, last_position,
               queue, waiters, now, tx, accepted, refused, handled, before,
               failsSince >>

NoEvent == [kind |-> "none"]

\* The mutexes: of the Position Cache, of the Stats Window, and the one the
\* Python class ReachyMiniMotorController keeps its controller in.
Mutexes == {"last_position", "last_stats", "inner"}

\* The handle exists: new() has returned Ok.
Constructed == phase \in {"running", "panicked"}

InitCommon ==
    /\ init_i = 0
    /\ error_count = 0
    /\ last_position = Uninit
    /\ queue = <<>>
    /\ waiters = <<>>
    /\ now = 0
    /\ tx = "held"
    /\ last_stats = ControlLoopStats(<<>>, <<>>, <<>>)
    /\ read_dt = <<>>
    /\ write_dt = <<>>
    /\ stats_t0 = 0
    /\ worker = [pc |-> "select"]
    /\ bus = {}
    /\ locks = [m \in Mutexes |-> {}]
    /\ callers = [t \in Producers |-> "idle"]
    /\ wire = <<>>
    /\ accepted = <<>>
    /\ refused = 0
    /\ handled = <<>>
    /\ before = Uninit
    /\ failsSince = 0
    /\ evTick = NoEvent
    /\ evCmd = NoEvent

\* ReachyMiniControlLoop::new is called with some retry threshold and
\* stats_pub_period = None.
Init ==
    /\ phase = "new"
    /\ stats_pub_period = 0
    /\ read_allowed_retries \in 0..MaxRetries
    /\ InitCommon

\* ------------------------------------------------- ReachyMiniControlLoop::new
\* ReachyMiniMotorController::new(..).unwrap(): the port opens and every
\* motor answers its ping, or the unwrap panics in the caller.
OpenController ==
    /\ phase = "new"
    /\ \E ok \in BOOLEAN : phase' = IF ok THEN "opened" ELSE "ctor_panic"
    /\ UNCHANGED << loopVars, wire, evTick, evCmd >>

\* What new() does with the result of read_pos_with_retries: `?` returns
\* the Err; an Ok seeds the cache and the worker is spawned.
SeedStartAnyway(r) ==
    [phase |-> "running",
     last_position |-> IF r.tag = "Ok" THEN OkPos(r.pos) ELSE Uninit]

SeedWorkerOnError(r) ==
    IF r.tag = "Ok"
    THEN [phase |-> "running", last_position |-> OkPos(r.pos)]
    ELSE [phase |-> "running", last_position |-> ErrMsg(r.msg)]

Seed(r) ==
    IF r.tag = "Ok"
    THEN [phase |-> "running", last_position |-> OkPos(r.pos)]
    ELSE [phase |-> "ctor_err", last_position |-> Uninit]

\* One iteration of read_pos_with_retries (for i in 0..retries): a read that
\* succeeds returns, a read that fails goes on to the next i.
InitialRead ==
    /\ phase = "opened"
    /\ init_i < read_allowed_retries
    /\ \E outcome \in ReadOutcomes, b \in ReadBases :
         LET r == read_pos(read_all_positions(outcome, RawPositions(b)), now)
         IN  IF r.tag = "Ok"
             THEN /\ phase' = Seed(r).phase
                  /\ last_position' = Seed(r).last_position
                  /\ before' = Seed(r).last_position
                  /\ init_i' = 0
             ELSE /\ init_i' = init_i + 1
                  /\ UNCHANGED << phase, last_position, before >>
    /\ UNCHANGED << statsVars, stepVars, read_allowed_retries, error_count, queue,
                    waiters, now,
                    tx, wire, accepted, refused, handled, failsSince,
                    evTick, evCmd >>

\* read_pos_with_retries leaves its loop without a position: Err.
InitialReadGivesUp ==
    /\ phase = "opened"
    /\ init_i >= read_allowed_retries
    /\ LET s == Seed(ErrMsg("Failed to read positions after retries"))
       IN  /\ phase' = s.phase
           /\ last_position' = s.last_position
           /\ before' = s.last_position
    /\ UNCHANGED << statsVars, stepVars, read_allowed_retries, init_i, error_count,
                    queue, waiters,
                    now, tx, wire, accepted, refused, handled, failsSince,
                    evTick, evCmd >>

\* ------------------------------------------------------------ push_command
Pushes == Len(accepted) + refused + Len(waiters)

\* The bounds on the timer ticks and the pushes explored.
Explored(pushes, ticks) ==
    IF stats_pub_period = 0
    THEN /\ pushes <= MaxPush
         /\ ticks <= MaxTicks
         /\ (pushes <= FewPushes \/ ticks <= FewTicks)
    ELSE /\ pushes <= StatsPushes
         /\ ticks <= StatsTicks

IsWaiting(p) == \E i \in 1..Len(waiters) : waiters[i].p = p

\* push_command = tx.blocking_send(command).  The receiver is gone: Err.  A
\* permit is free and nobody waits for one: the command is buffered, Ok.
\* Otherwise the caller blocks, behind those already waiting.
push_command_unbounded(p, command) ==
    IF phase = "panicked"
    THEN /\ refused' = refused + 1
         /\ UNCHANGED << queue, accepted, waiters >>
    ELSE /\ queue' = Append(queue, command)
         /\ accepted' = Append(accepted, command)
         /\ UNCHANGED << refused, waiters >>

push_command(p, command) ==
    IF phase = "panicked"
    THEN /\ refused' = refused + 1
         /\ UNCHANGED << queue, accepted, waiters >>
    ELSE IF Len(queue) < Capacity /\ waiters = <<>>
         THEN /\ queue' = Append(queue, command)
              /\ accepted' = Append(accepted, command)
              /\ UNCHANGED << refused, waiters >>
         ELSE /\ waiters' = Append(waiters, [p |-> p, command |-> command])
              /\ UNCHANGED << queue, accepted, refused >>

Push ==
    /\ Constructed
    /\ tx = "held"
    /\ Explored(Pushes + 1, now)
    /\ \E p \in Producers, command \in Commands :
         /\ ~IsWaiting(p)
         /\ push_command(p, command)
    /\ UNCHANGED << statsVars, stepVars, phase, read_allowed_retries, init_i,
                    error_count,
                    last_position, now, tx, wire, handled, before,
                    failsSince, evTick, evCmd >>

\* The caller drops the handle, and with it the only Sender (push_command
\* borrows the handle, so no push is in flight then).  The worker thread is
\* detached: nothing else happens to it.
DropHandle ==
    /\ Constructed
    /\ tx = "held"
    /\ waiters = <<>>
    /\ tx' = "dropped"
    /\ UNCHANGED << statsVars, stepVars, phase, read_allowed_retries, init_i,
                    error_count,
                    last_position, queue, waiters, now, wire, accepted,
                    refused, handled, before, failsSince, evTick, evCmd >>

\* A blocked blocking_send gets its permit (permits are handed out in the
\* order of the waiting calls), buffers its command and returns Ok.
SendUnblocked ==
    /\ phase = "running"
    /\ waiters # <<>>
    /\ Len(queue) < Capacity
    /\ queue' = Append(queue, Head(waiters).command)
    /\ accepted' = Append(accepted, Head(waiters).command)
    /\ waiters' = Tail(waiters)
    /\ UNCHANGED << statsVars, stepVars, phase, read_allowed_retries, init_i,
                    error_count,
                    last_position, now, tx, wire, refused, handled, before,
                    failsSince, evTick, evCmd >>

\* ------------------------------------------------------ run: the select loop
\* The worker after handle_commands(..).unwrap(): an Ok goes on with the
\* loop; an Err panics the worker thread, whose unwinding drops the receiver
\* with the commands it still buffers and fails the blocked senders.
Unwrap(res) ==
    IF res = "Ok"
    THEN [phase |-> "running", queue |-> Tail(queue), waiters |-> waiters,
          refused |-> refused]
    ELSE [phase |-> "panicked", queue |-> <<>>, waiters |-> <<>>,
          refused |-> refused + Len(waiters)]

\* select! polls its two branches in random order: rx.recv() is ready when
\* a command is buffered, whether or not the interval's tick is due.
RecvReadyBiased(q, due) == q # <<>> /\ ~due

RecvReady(q, due) == q # <<>>

HandleCommandResets ==
    /\ phase = "running"
    /\ RecvReady(queue, Explored(Pushes, now + 1))
    /\ \E f \in 0..NWrites(Head(queue)) :
         LET command == Head(queue)
             r == handle_commands(command, f)
             u == Unwrap(r.res)
         IN  /\ handled' = Append(handled, command)
             /\ wire' = wire \o r.issued
             /\ phase' = u.phase
             /\ queue' = u.queue
             /\ waiters' = u.waiters
             /\ refused' = u.refused
             /\ error_count' = IF r.res = "Ok" THEN 0 ELSE error_count
             /\ evCmd' = [kind |-> "command", command |-> command,
                          res |-> r.res, wireLen |-> Len(wire)]
    /\ UNCHANGED << statsVars, stepVars, read_allowed_retries, init_i,
                    last_position, now, tx, accepted, before, failsSince,
                    evTick >>

\* The branch `maybe_command = rx.recv()` with Some(command).
HandleCommand ==
    /\ phase = "running"
    /\ RecvReady(queue, Explored(Pushes, now + 1))
    /\ \E f \in 0..NWrites(Head(queue)) :
         LET command == Head(queue)
             r == handle_commands(command, f)
             u == Unwrap(r.res)
         IN  /\ handled' = Append(handled, command)
             /\ wire' = wire \o r.issued
             /\ phase' = u.phase
             /\ queue' = u.queue
             /\ waiters' = u.waiters
             /\ refused' = u.refused
             /\ write_dt' = IF stats_pub_period # 0 /\ r.res = "Ok"
                            THEN Append(write_dt, Len(handled'))
                            ELSE write_dt
             /\ evCmd' = [kind |-> "command", command |-> command,
                          res |-> r.res, wireLen |-> Len(wire)]
    /\ UNCHANGED << stepVars, read_allowed_retries, init_i, error_count,
                    last_position,
                    now, tx, stats_pub_period, last_stats, read_dt, stats_t0,
                    accepted, before, failsSince, evTick >>

\* The branch `maybe_command = rx.recv()` with None (every Sender is dropped
\* and the buffer is empty): `if let Some(command)` does nothing and the
\* loop goes on; recv() answers None again at once.
RecvNone ==
    /\ phase = "running"
    /\ tx = "dropped"
    /\ queue = <<>>
    /\ evCmd' = [kind |-> "recv_none"]
    /\ UNCHANGED << phase, loopVars, wire, evTick >>

\* The arm Ok(positions) of the tick: the counter is reset and the cache
\* gets the positions, stamped with the current time t.
ReadOkKeepsCount(cnt, cache, positions, t) ==
    [error_count |-> cnt,
     last_position |-> OkPos(FullBodyPosition(positions.body_yaw,
                               positions.stewart, positions.antennas, t))]

ReadOkKeepsFault(cnt, cache, positions, t) ==
    [error_count |-> 0,
     last_position |-> IF cache.tag = "Err" THEN cache
                       ELSE OkPos(FullBodyPosition(positions.body_yaw,
                                    positions.stewart, positions.antennas, t))]

ReadOk(cnt, cache, positions, t) ==
    [error_count |-> 0,
     last_position |-> OkPos(FullBodyPosition(positions.body_yaw,
                               positions.stewart, positions.antennas, t))]

\* The arm Err(e) of the tick: the counter is incremented; below the
\* threshold the failure is only logged, otherwise the cache gets the error.
ReadErrFaultsEarly(cnt, cache, e, retries) ==
    [error_count |-> cnt + 1,
     last_position |-> IF cnt + 1 < retries - 1 THEN cache ELSE ErrMsg(e)]

ReadErrFaultsLate(cnt, cache, e, retries) ==
    [error_count |-> cnt + 1,
     last_position |-> IF cnt + 1 <= retries THEN cache ELSE ErrMsg(e)]

ReadErrSaturates(cnt, cache, e, retries) ==
    [error_count |-> IF cnt + 1 < retries THEN cnt + 1 ELSE retries,
     last_position |-> IF cnt + 1 < retries THEN cache ELSE ErrMsg(e)]

ReadErr(cnt, cache, e, retries) ==
    [error_count |-> cnt + 1,
     last_position |-> IF cnt + 1 < retries THEN cache ELSE ErrMsg(e)]

\* When the tick branch of the select! can be taken once the interval has
\* elapsed: select! (without `biased;`) polls its branches starting from a
\* random one, so whatever q, the Command Queue, holds.
TickReadyBiased(q) == q = <<>>

TickReady(q) == TRUE

\* The time, in read periods since the worker started, of the n-th tick of
\* the interval (its first tick completes at once).
Time(n) == n - 1

\* The outcomes of `stats_t0.elapsed() > *period` in a tick d read periods
\* after the tick stats_t0 was taken in: on the boundary it depends on how
\* long after their ticks the two instants were taken.
PeriodElapsed(d, period) ==
    IF d > period THEN {TRUE} ELSE IF d = period THEN BOOLEAN ELSE {FALSE}

\* The flush: the local buffers are appended to the shared lists.
PublishResets(stats, rd, wd) ==
    [stats EXCEPT !.read_dt = rd, !.write_dt = wd]

PublishReadsOnly(stats, rd, wd) ==
    [stats EXCEPT !.read_dt = @ \o rd]

Publish(stats, rd, wd) ==
    [stats EXCEPT !.read_dt = @ \o rd, !.write_dt = @ \o wd]

\* The stats part of the n-th tick: the period sample goes straight into
\* the shared stats, the read sample into the local buffer, and when the
\* period has elapsed (flush) the buffers are published and cleared.  The
\* sample of a tick is written as the tick's number.
TickStats(period, stats, rd, wd, t0, n, flush) ==
    IF period = 0
    THEN [last_stats |-> stats, read_dt |-> rd, write_dt |-> wd,
          stats_t0 |-> t0]
    ELSE LET pushed == [stats EXCEPT !.period = Append(@, n)]
         IN  IF flush
             THEN [last_stats |-> Publish(pushed, Append(rd, n), wd),
                   read_dt |-> <<>>, write_dt |-> <<>>,
                   stats_t0 |-> Time(n)]
             ELSE [last_stats |-> pushed, read_dt |-> Append(rd, n),
                   write_dt |-> wd, stats_t0 |-> t0]

\* The branch `_ = interval.tick()`: one read_pos and its match, then the
\* stats.
Tick ==
    /\ phase = "running"
    /\ TickReady(queue)
    /\ Explored(Pushes, now + 1)
    /\ now' = now + 1
    /\ \E outcome \in ReadOutcomes, b \in ReadBases :
         LET r == read_pos(read_all_positions(outcome, RawPositions(b)), now')
             n == IF r.tag = "Ok"
                  THEN ReadOk(error_count, last_position, r.pos, now')
                  ELSE ReadErr(error_count, last_position, r.msg,
                               read_allowed_retries)
         IN  /\ error_count' = n.error_count
             /\ last_position' = n.last_position
             /\ before' = IF r.tag = "Ok" THEN r ELSE before
             /\ failsSince' = IF r.tag = "Ok" THEN 0 ELSE failsSince + 1
             /\ evTick' = [kind |-> "tick", ok |-> (r.tag = "Ok"),
                           was |-> last_position.tag,
                           pending |-> (queue # <<>>)]
    /\ \E flush \in IF stats_pub_period = 0 THEN {FALSE}
                     ELSE PeriodElapsed(Time(now') - stats_t0,
                                        stats_pub_period) :
         LET st == TickStats(stats_pub_period, last_stats, read_dt, write_dt,
                             stats_t0, now', flush)
         IN  /\ last_stats' = st.last_stats
             /\ read_dt' = st.read_dt
             /\ write_dt' = st.write_dt
             /\ stats_t0' = st.stats_t0
    /\ UNCHANGED << stepVars, phase, read_allowed_retries, init_i, queue,
                    waiters, tx, stats_pub_period, wire, accepted, refused, handled,
                    evCmd >>

Next ==
    \/ OpenController
    \/ InitialRead
    \/ InitialReadGivesUp
    \/ Push
    \/ DropHandle
    \/ SendUnblocked
    \/ HandleCommand
    \/ RecvNone
    \/ Tick

Spec == Init /\ [][Next]_vars

\* --------------------------------------- the controller used on its own
\* The goal-position methods of ReachyMiniMotorController called directly
\* (as the bindings and the demo programs do), on goal vectors that are at,
\* or one step beyond, either end of the range in one element.
EdgeValues == {POSITION_MIN - 1, POSITION_MIN, POSITION_MAX, POSITION_MAX + 1}

GoalVectors(n) ==
    { [i \in 1..n |-> IF i = k THEN v ELSE 0] : k \in 1..n, v \in EdgeValues }

\* A call of a method with a goal vector.
Call(method, positions) == [kind |-> method, vec |-> positions]

InitController ==
    /\ phase = "direct"
    /\ stats_pub_period = 0
    /\ read_allowed_retries = 0
    /\ InitCommon

\* What the controller-only runs leave alone.
directFrame == << statsVars, stepVars, phase, read_allowed_retries, init_i, error_count,
                  last_position, queue, waiters, now, tx, accepted, refused,
                  before, failsSince, evTick >>

\* The history entry of a call that returned r.
CallEvent(call, r) ==
    [kind |-> "call", command |-> call, res |-> r.res, wireLen |-> Len(wire)]

CallSetAllGoalPositions ==
    /\ phase = "direct"
    /\ Len(handled) < MaxCalls
    /\ \E positions \in GoalVectors(9), f \in 0..2 :
         LET call == Call("set_all_goal_positions", positions)
             r == set_all_goal_positions(positions, f)
         IN  /\ handled' = Append(handled, call)
             /\ wire' = wire \o r.issued
             /\ evCmd' = CallEvent(call, r)
    /\ UNCHANGED directFrame

CallSetAntennasPositions ==
    /\ phase = "direct"
    /\ Len(handled) < MaxCalls
    /\ \E positions \in GoalVectors(2), f \in 0..1 :
         LET call == Call("set_antennas_positions", positions)
             r == set_antennas_positions(positions, f)
         IN  /\ handled' = Append(handled, call)
             /\ wire' = wire \o r.issued
             /\ evCmd' = CallEvent(call, r)
    /\ UNCHANGED directFrame

CallSetStewartPlatformPosition ==
    /\ phase = "direct"
    /\ Len(handled) < MaxCalls
    /\ \E position \in GoalVectors(6), f \in 0..1 :
         LET call == Call("set_stewart_platform_position", position)
             r == set_stewart_platform_position(position, f)
         IN  /\ handled' = Append(handled, call)
             /\ wire' = wire \o r.issued
             /\ evCmd' = CallEvent(call, r)
    /\ UNCHANGED directFrame

CallSetBodyRotation ==
    /\ phase = "direct"
    /\ Len(handled) < MaxCalls
    /\ \E position \in EdgeValues, f \in 0..1 :
         LET call == Call("set_body_rotation", <<position>>)
             r == set_body_rotation(position, f)
         IN  /\ handled' = Append(handled, call)
             /\ wire' = wire \o r.issued
             /\ evCmd' = CallEvent(call, r)
    /\ UNCHANGED directFrame

NextController ==
    \/ CallSetAllGoalPositions
    \/ CallSetAntennasPositions
    \/ CallSetStewartPlatformPosition
    \/ CallSetBodyRotation

SpecController == InitController /\ [][NextController]_vars

\* ---------------------------------------------- the loop with stats enabled
\* ReachyMiniControlLoop::new is called with stats_pub_period = Some(..)
\* (and a retry threshold of 1: the stats code does not read it).
InitStats ==
    /\ phase = "new"
    /\ stats_pub_period \in 1..MaxPeriod
    /\ read_allowed_retries = 1
    /\ InitCommon

\* With at most StatsPushes pushes the channel never fills, no
\* blocking_send ever waits and SendUnblocked is never enabled.
NextStats ==
    \/ OpenController
    \/ InitialRead
    \/ InitialReadGivesUp
    \/ Push
    \/ DropHandle
    \/ HandleCommand
    \/ RecvNone
    \/ Tick

SpecStats == InitStats /\ [][NextStats]_vars

\* ------------------------------------------- run and the getters, by steps
\* The same loop with every transport operation and every critical section
\* of the worker as an interval of its own, next to a thread that calls
\* get_last_position and get_stats.
GetterThreads == {1}

\* The thread new() spawns for run (the callers are 1, 2, ..).
WorkerThread == 0

\* Reads of the rig seen by the step-by-step runs.
StepOutcomes == {"ok", "v1_error"}

\* A thread starts, and finishes, a transport operation on the serial line.
BusEnter(b, who, op) == b \cup {[by |-> who, op |-> op]}

BusLeaveNever(b, who, op) == b

BusLeave(b, who, op) == b \ {[by |-> who, op |-> op]}

\* Mutex::lock returns its guard; the guard is dropped.
Lock(l, m, who) == [l EXCEPT ![m] = {who}]

UnlockNever(l, m) == l

Unlock(l, m) == [l EXCEPT ![m] = {}]

\* The handle is returned, with stats enabled, the worker is about to
\* select for the first time, and the initial read has seeded the cache.
InitSteps ==
    /\ phase = "running"
    /\ stats_pub_period \in 1..MaxPeriod
    /\ read_allowed_retries \in 1..MaxRetries
    /\ init_i = 0
    /\ error_count = 0
    /\ last_position =
         read_pos(read_all_positions("ok", RawPositions(0)), 0)
    /\ before = last_position
    /\ queue = <<>>
    /\ waiters = <<>>
    /\ now = 0
    /\ tx = "held"
    /\ last_stats = ControlLoopStats(<<>>, <<>>, <<>>)
    /\ read_dt = <<>>
    /\ write_dt = <<>>
    /\ stats_t0 = 0
    /\ worker = [pc |-> "select"]
    /\ bus = {}
    /\ locks = [m \in Mutexes |-> {}]
    /\ callers = [t \in Producers |-> "idle"]
    /\ wire = <<>>
    /\ accepted = <<>>
    /\ refused = 0
    /\ handled = <<>>
    /\ failsSince = 0
    /\ evTick = NoEvent
    /\ evCmd = NoEvent

\* What no step of the worker or of a getter changes.
stepFrame == << read_allowed_retries, init_i, tx, stats_pub_period, accepted,
               before, failsSince, evTick >>

\* select!: rx.recv() gives Some(command); handle_commands is entered.
RecvCommand ==
    /\ phase = "running"
    /\ worker.pc = "select"
    /\ queue # <<>>
    /\ queue' = Tail(queue)
    /\ handled' = Append(handled, Head(queue))
    /\ worker' = [pc |-> "write"]
    /\ bus' = BusEnter(bus, WorkerThread, "write")
    /\ UNCHANGED << stepFrame, phase, error_count, last_position, waiters,
                    now, last_stats, read_dt, write_dt, stats_t0, locks,
                    callers, wire, refused, evCmd >>

\* handle_commands returns and is unwrapped; write_dt gets its sample.
WriteReturns ==
    /\ phase = "running"
    /\ worker.pc = "write"
    /\ \E f \in 0..NWrites(handled[Len(handled)]) :
         LET command == handled[Len(handled)]
             r == handle_commands(command, f)
         IN  /\ wire' = wire \o r.issued
             /\ bus' = BusLeave(bus, WorkerThread, "write")
             /\ evCmd' = [kind |-> "command", command |-> command,
                          res |-> r.res, wireLen |-> Len(wire)]
             /\ IF r.res = "Ok"
                THEN /\ write_dt' = Append(write_dt, Len(handled))
                     /\ worker' = [pc |-> "select"]
                     /\ UNCHANGED << phase, queue, waiters, refused >>
                ELSE /\ phase' = "panicked"
                     /\ queue' = <<>>
                     /\ waiters' = <<>>
                     /\ refused' = refused + Len(waiters)
                     /\ worker' = [pc |-> "panicked"]
                     /\ UNCHANGED write_dt
    /\ UNCHANGED << stepFrame, error_count, last_position, now, last_stats,
                    read_dt, stats_t0, locks, callers, handled >>

\* select!: interval.tick() completes; with stats the worker goes for the
\* Stats Window's mutex.
TickFires ==
    /\ phase = "running"
    /\ worker.pc = "select"
    /\ TickReady(queue)
    /\ Explored(Pushes, now + 1)
    /\ now' = now + 1
    /\ worker' = [pc |-> "lock_period"]
    /\ UNCHANGED << stepFrame, phase, error_count, last_position, queue,
                    waiters, last_stats, read_dt, write_dt, stats_t0, bus,
                    locks, callers, wire, refused, handled, evCmd >>

\* The mutex the worker locks at each of its lock() calls, and where it is
\* once it holds the guard.
LockSteps ==
    [lock_period |-> [mutex |-> "last_stats", to |-> "push_period"],
     lock_pos |-> [mutex |-> "last_position", to |-> "store"],
     lock_read_dt |-> [mutex |-> "last_stats", to |-> "extend_read_dt"],
     lock_write_dt |-> [mutex |-> "last_stats", to |-> "extend_write_dt"]]

\* A lock() of the worker returns: the mutex was free.
WorkerLock ==
    /\ phase = "running"
    /\ worker.pc \in DOMAIN LockSteps
    /\ locks[LockSteps[worker.pc].mutex] = {}
    /\ locks' = Lock(locks, LockSteps[worker.pc].mutex, WorkerThread)
    /\ worker' = [worker EXCEPT !.pc = LockSteps[worker.pc].to]
    /\ UNCHANGED << stepFrame, phase, error_count, last_position, queue,
                    waiters, now, last_stats, read_dt, write_dt, stats_t0,
                    bus, callers, wire, refused, handled, evCmd >>

\* stats.lock().unwrap().period.push(..): the guard is dropped at the end
\* of the statement; then read_pos is entered.
PushPeriod ==
    /\ worker.pc = "push_period"
    /\ last_stats' = [last_stats EXCEPT !.period = Append(@, now)]
    /\ locks' = Unlock(locks, "last_stats")
    /\ worker' = [pc |-> "read"]
    /\ bus' = BusEnter(bus, WorkerThread, "read")
    /\ UNCHANGED << stepFrame, phase, error_count, last_position, queue,
                    waiters, now, read_dt, write_dt, stats_t0, callers, wire,
                    refused, handled, evCmd >>

\* read_pos returns and is matched: error_count is updated; an Ok, and an
\* Err from the threshold on, go for the Position Cache's mutex.
ReadReturns ==
    /\ worker.pc = "read"
    /\ bus' = BusLeave(bus, WorkerThread, "read")
    /\ \E outcome \in StepOutcomes :
         LET r == read_pos(read_all_positions(outcome, RawPositions(1)), now)
             n == IF r.tag = "Ok"
                  THEN ReadOk(error_count, last_position, r.pos, now)
                  ELSE ReadErr(error_count, last_position, r.msg,
                               read_allowed_retries)
         IN  /\ error_count' = n.error_count
             /\ worker' = IF r.tag = "Ok"
                             \/ ~(n.error_count < read_allowed_retries)
                          THEN [pc |-> "lock_pos", res |-> n.last_position]
                          ELSE [pc |-> "read_dt"]
    /\ UNCHANGED << stepFrame, phase, last_position, queue, waiters, now,
                    last_stats, read_dt, write_dt, stats_t0, locks, callers,
                    wire, refused, handled, evCmd >>

\* *pos = ..; the guard is dropped at the end of the if let.
StorePosition ==
    /\ worker.pc = "store"
    /\ last_position' = worker.res
    /\ locks' = Unlock(locks, "last_position")
    /\ worker' = [pc |-> "read_dt"]
    /\ UNCHANGED << stepFrame, phase, error_count, queue, waiters, now,
                    last_stats, read_dt, write_dt, stats_t0, bus, callers,
                    wire, refused, handled, evCmd >>

\* read_dt.push(elapsed), then the test of the flush period.
BufferReadDt ==
    /\ worker.pc = "read_dt"
    /\ read_dt' = Append(read_dt, now)
    /\ \E flush \in PeriodElapsed(Time(now) - stats_t0, stats_pub_period) :
         worker' = [pc |-> IF flush THEN "lock_read_dt" ELSE "select"]
    /\ UNCHANGED << stepFrame, phase, error_count, last_position, queue,
                    waiters, now, last_stats, write_dt, stats_t0, bus, locks,
                    callers, wire, refused, handled, evCmd >>

\* stats.lock().unwrap().read_dt.extend(..).
ExtendReadDt ==
    /\ worker.pc = "extend_read_dt"
    /\ last_stats' = Publish(last_stats, read_dt, <<>>)
    /\ locks' = Unlock(locks, "last_stats")
    /\ worker' = [pc |-> "lock_write_dt"]
    /\ UNCHANGED << stepFrame, phase, error_count, last_position, queue,
                    waiters, now, read_dt, write_dt, stats_t0, bus, callers,
                    wire, refused, handled, evCmd >>

\* stats.lock().unwrap().write_dt.extend(..), then the buffers are cleared
\* and stats_t0 is taken anew.
ExtendWriteDt ==
    /\ worker.pc = "extend_write_dt"
    /\ last_stats' = Publish(last_stats, <<>>, write_dt)
    /\ locks' = Unlock(locks, "last_stats")
    /\ read_dt' = <<>>
    /\ write_dt' = <<>>
    /\ stats_t0' = Time(now)
    /\ worker' = [pc |-> "select"]
    /\ UNCHANGED << stepFrame, phase, error_count, last_position, queue,
                    waiters, now, bus, callers, wire, refused, handled,
                    evCmd >>

\* get_last_position: last_position.lock() returns the guard ...
GetLastPositionLocks ==
    /\ Constructed
    /\ \E t \in GetterThreads :
         /\ callers[t] = "idle"
         /\ locks["last_position"] = {}
         /\ locks' = Lock(locks, "last_position", t)
         /\ callers' = [callers EXCEPT ![t] = "get_last_position"]
    /\ UNCHANGED << stepFrame, phase, error_count, last_position, queue,
                    waiters, now, last_stats, read_dt, write_dt, stats_t0,
                    worker, bus, wire, refused, handled, evCmd >>

\* ... and the value is copied out, the guard dropped.
GetLastPositionReturns ==
    /\ \E t \in GetterThreads :
         /\ callers[t] = "get_last_position"
         /\ locks' = Unlock(locks, "last_position")
         /\ callers' = [callers EXCEPT ![t] = "idle"]
    /\ UNCHANGED << stepFrame, phase, error_count, last_position, queue,
                    waiters, now, last_stats, read_dt, write_dt, stats_t0,
                    worker, bus, wire, refused, handled, evCmd >>

\* get_stats: stats.lock() returns the guard ...
GetStatsLocks ==
    /\ Constructed
    /\ \E t \in GetterThreads :
         /\ callers[t] = "idle"
         /\ locks["last_stats"] = {}
         /\ locks' = Lock(locks, "last_stats", t)
         /\ callers' = [callers EXCEPT ![t] = "get_stats"]
    /\ UNCHANGED << stepFrame, phase, error_count, last_position, queue,
                    waiters, now, last_stats, read_dt, write_dt, stats_t0,
                    worker, bus, wire, refused, handled, evCmd >>

\* ... and the stats are cloned, the guard dropped.
GetStatsReturns ==
    /\ \E t \in GetterThreads :
         /\ callers[t] = "get_stats"
         /\ locks' = Unlock(locks, "last_stats")
         /\ callers' = [callers EXCEPT ![t] = "idle"]
    /\ UNCHANGED << stepFrame, phase, error_count, last_position, queue,
                    waiters, now, last_stats, read_dt, write_dt, stats_t0,
                    worker, bus, wire, refused, handled, evCmd >>

NextSteps ==
    \/ Push
    \/ RecvCommand
    \/ WriteReturns
    \/ TickFires
    \/ WorkerLock
    \/ PushPeriod
    \/ ReadReturns
    \/ StorePosition
    \/ BufferReadDt
    \/ ExtendReadDt
    \/ ExtendWriteDt
    \/ GetLastPositionLocks
    \/ GetLastPositionReturns
    \/ GetStatsLocks
    \/ GetStatsReturns

SpecSteps == InitSteps /\ [][NextSteps]_vars

\* -------------------------- the Python class ReachyMiniMotorController
\* Threads call methods of one object of the class; every method locks
\* `inner`, runs the controller's method under the guard and returns.
PyMethods == {"enable_torque", "set_body_rotation", "read_all_positions"}

\* The arguments the modelled threads pass.
PyArgs(method) == IF method = "set_body_rotation" THEN <<10>> ELSE <<>>

\* What the controller's method does on the serial line when the transport
\* fails its f-th operation (0: none).
PyEffect(method, f) ==
    CASE method = "enable_torque" -> enable_torque(f)
      [] method = "set_body_rotation" ->
           set_body_rotation(PyArgs(method)[1], f)
      [] method = "read_all_positions" ->
           [res |-> IF f = 0 THEN "Ok" ELSE "TransportError", issued |-> <<>>]

\* The transport operations of a method: its writes, or its read.
PyOps(method) ==
    IF method = "read_all_positions" THEN 1
    ELSE Len(PyEffect(method, 0).issued)

\* The controller's method is called through the guard that lock() gave.
MayOperateUnlocked(l, t) == TRUE

MayOperate(l, t) == t \in l["inner"]

\* new() of the class has returned the object: the port is open, the motors
\* have answered, the controller is inside the mutex.
InitBindings ==
    /\ phase = "python"
    /\ stats_pub_period = 0
    /\ read_allowed_retries = 0
    /\ InitCommon

pyFrame == << statsVars, phase, read_allowed_retries, init_i, error_count,
              last_position, queue, waiters, now, tx, worker, accepted,
              refused, before, failsSince, evTick >>

\* A thread calls a method of the object.
PyCall ==
    /\ phase = "python"
    /\ Len(handled) < PyCalls
    /\ \E t \in Producers, method \in PyMethods :
         /\ callers[t] = "idle"
         /\ callers' = [callers EXCEPT ![t] = method]
         /\ handled' = Append(handled, Call(method, PyArgs(method)))
    /\ UNCHANGED << pyFrame, bus, locks, wire, evCmd >>

\* self.inner.lock() returns the guard.
PyLock ==
    /\ phase = "python"
    /\ \E t \in Producers :
         /\ callers[t] # "idle"
         /\ locks["inner"] = {}
         /\ locks' = Lock(locks, "inner", t)
    /\ UNCHANGED << pyFrame, bus, callers, wire, handled, evCmd >>

\* inner.<method>(..) is entered.
PyOperate ==
    /\ phase = "python"
    /\ \E t \in Producers :
         /\ callers[t] # "idle"
         /\ MayOperate(locks, t)
         /\ \A o \in bus : o.by # t
         /\ bus' = BusEnter(bus, t, callers[t])
    /\ UNCHANGED << pyFrame, locks, callers, wire, handled, evCmd >>

\* inner.<method>(..) returns, then the method of the class: the guard is
\* dropped.
PyReturn ==
    /\ phase = "python"
    /\ \E t \in Producers :
         /\ [by |-> t, op |-> callers[t]] \in bus
         /\ \E f \in 0..PyOps(callers[t]) :
              LET r == PyEffect(callers[t], f)
              IN  /\ wire' = wire \o r.issued
                  /\ evCmd' = CallEvent(Call(callers[t], PyArgs(callers[t])), r)
         /\ bus' = BusLeave(bus, t, callers[t])
         /\ locks' = Unlock(locks, "inner")
         /\ callers' = [callers EXCEPT ![t] = "idle"]
    /\ UNCHANGED << pyFrame, handled >>

NextBindings ==
    \/ PyCall
    \/ PyLock
    \/ PyOperate
    \/ PyReturn

SpecBindings == InitBindings /\ [][NextBindings]_vars

\* The select! of run picks at random among its ready branches, so a branch
\* that stays ready is taken; a blocked sender that holds a permit proceeds.
FairSpec ==
    /\ Spec
    /\ WF_vars(HandleCommand)
    /\ WF_vars(SendUnblocked)

\* The tick branch, ready for as long as the worker runs, is taken by the
\* random choice of the select!.
FairTickSpec ==
    /\ Spec
    /\ WF_vars(Tick)

\* ------------------------------------------------------------- properties
\* Some element of a goal vector is below POSITION_MIN or above POSITION_MAX.
OutOfRange(vec) ==
    \E i \in 1..Len(vec) : vec[i] < POSITION_MIN \/ vec[i] > POSITION_MAX

\* The goal positions a command carries (none for the other variants).
GoalVector(command) ==
    CASE command.kind = "SetAllGoalPositions" ->
           <<command.positions.body_yaw>> \o command.positions.antennas
             \o command.positions.stewart
      [] command.kind = "SetStewartPlatformPosition" -> command.stewart
      [] command.kind = "SetBodyRotation" -> <<command.position>>
      [] command.kind = "SetAntennasPositions" -> command.antennas
      [] OTHER -> <<>>

TickBound == IF MaxTicks > StatsTicks THEN MaxTicks ELSE StatsTicks

TypeOK ==
    /\ phase \in {"new", "opened", "ctor_panic", "ctor_err", "running",
                  "panicked", "direct", "python",
                  "functions", "open", "pinging", "controller_ok",
                  "controller_err"}
    /\ read_allowed_retries \in 0..MaxRetries
    /\ init_i \in 0..MaxRetries
    /\ error_count \in 0..TickBound
    /\ last_position.tag \in {"Uninit", "Ok", "Err"}
    /\ Len(queue) <= Capacity
    /\ now \in 0..TickBound
    /\ stats_pub_period \in 0..MaxPeriod
    /\ Len(last_stats.period) = IF stats_pub_period = 0 THEN 0 ELSE now
    /\ stats_t0 \in 0..TickBound
    /\ tx \in {"held", "dropped"}
    /\ refused \in 0..MaxPush
    /\ failsSince \in 0..TickBound

\* The commands handed to handle_commands are, in order, the first of those
\* accepted by push_command.
HandledIsPrefixOfAccepted ==
    /\ Len(handled) <= Len(accepted)
    /\ handled = SubSeq(accepted, 1, Len(handled))

\* C1: after n < read_allowed_retries consecutive failed tick reads since
\* the construction or the last successful tick read, with any commands
\* handled in between, the Position Cache still holds the snapshot (values
\* and timestamp) of that last successful read.
C1_StaleBelowThreshold ==
    (Constructed /\ failsSince < read_allowed_retries)
        => last_position = before

C1_Witness ==
    /\ Constructed
    /\ failsSince >= 1
    /\ failsSince < read_allowed_retries
    /\ evCmd.kind = "command"
    /\ last_position = before
    /\ before.pos.timestamp < now

\* C2: from the read_allowed_retries-th consecutive failed tick read on, the
\* Position Cache holds a fault value, through every further failed read
\* and every handled command, for as long as no tick read has succeeded.
C2_FaultFromThreshold ==
    (Constructed /\ failsSince >= read_allowed_retries)
        => last_position.tag = "Err"

C2_Witness ==
    /\ Constructed
    /\ failsSince > read_allowed_retries
    /\ evCmd.kind = "command"
    /\ last_position.tag = "Err"

\* C3: whatever the state of the failure machine before it, a successful
\* tick read leaves the retry counter at 0 and the Position Cache holding
\* the snapshot of that read; commands handled afterwards change neither.
C3_SuccessResets ==
    (evTick.kind = "tick" /\ evTick.ok)
        => /\ error_count = 0
           /\ last_position = before
           /\ last_position.tag = "Ok"
           /\ last_position.pos.timestamp = now

C3_Witness ==
    /\ evTick.kind = "tick"
    /\ evTick.ok
    /\ evTick.was = "Err"
    /\ last_position.tag = "Ok"

\* C4: the commands for which push_command returned Ok are handed to the
\* transport in the order they were enqueued, each exactly once: at every
\* moment those already handled followed by those still buffered are
\* exactly those accepted.
C4_AllAppliedInOrder ==
    Constructed => handled \o queue = accepted

\* C5: a command whose application fails does not stop the worker.
C5_WorkerSurvivesFailedCommand ==
    (evCmd.kind = "command" /\ evCmd.res # "Ok") => phase = "running"

\* C6: a failing command aborts only its own processing: the step that
\* handles it takes it, and nothing else, out of the Command Queue.
C6_FailureAbortsOnlyItself ==
    [][(handled' # handled /\ evCmd'.res # "Ok") => queue' = Tail(queue)]_vars

\* C7: push_command never returns Ok for (and never enqueues) a
\* goal-position command that carries a value outside the range.
C7_OutOfRangeRejectedAtPush ==
    \A i \in 1..Len(accepted) : ~OutOfRange(GoalVector(accepted[i]))

\* C8: a call of a goal-position method with a vector that has an element
\* outside [POSITION_MIN, POSITION_MAX] returns the validation error and
\* issues no transport write at all.
C8_NoWriteWhenOutOfRange ==
    (evCmd.kind = "call" /\ OutOfRange(evCmd.command.vec))
        => /\ evCmd.res = "ValidationError"
           /\ Len(wire) = evCmd.wireLen

C8_Witness ==
    /\ evCmd.kind = "call"
    /\ evCmd.command.kind = "set_all_goal_positions"
    /\ evCmd.command.vec[9] > POSITION_MAX
    /\ ~OutOfRange(SubSeq(evCmd.command.vec, 1, 3))
    /\ evCmd.res = "ValidationError"
    /\ wire = <<>>

\* C9: every command for which push_command returned Ok is eventually
\* handed to the transport by the worker.
C9_AcceptedEventuallyHandled ==
    \A k \in 1..MaxPush :
        [](Len(accepted) >= k => <>(Len(handled) >= k))

\* C10: once the constructor has returned the handle, the Position Cache
\* holds a snapshot or a fault message, never nothing.
C10_CacheNeverEmpty ==
    Constructed => last_position.tag \in {"Ok", "Err"}

C10_Witness ==
    /\ phase = "running"
    /\ now = 0
    /\ last_position.tag = "Ok"
    /\ last_position.pos.body_yaw = RawPositions(1)[1]

\* C12: when every attempt of the initial read has failed (there are at most
\* read_allowed_retries of them), new() returns Err: there is no handle, no
\* worker (no tick, no command handled, no push possible) and no cache.
C12_InitialReadFailureFailsConstruction ==
    /\ init_i <= read_allowed_retries
    /\ (phase \in {"ctor_err", "running", "panicked"}
          /\ init_i >= read_allowed_retries)
        => /\ phase = "ctor_err"
           /\ last_position = Uninit
           /\ now = 0
           /\ accepted = <<>>
           /\ handled = <<>>

C12_Witness ==
    /\ phase = "ctor_err"
    /\ read_allowed_retries >= 2
    /\ init_i = read_allowed_retries
    /\ last_position = Uninit

\* C13: whatever read_allowed_retries is (0 included), a construction whose
\* pings were all answered and none of whose initial reads failed returns
\* the handle, with the cache holding Ok of the snapshot that was read.
C13_ResponsiveConstructionSucceeds ==
    (phase \in {"ctor_err", "running", "panicked"} /\ init_i = 0)
        => /\ Constructed
           /\ before.tag = "Ok"
           /\ (now = 0 => last_position = before)

\* C14: new() never aborts its caller: a failure to open the port or to
\* ping a motor comes back as an error value.
C14_OpenFailureReturnsError ==
    phase # "ctor_panic"

\* C15: the step in which the worker finds the Command Queue closed (recv()
\* gives None) disables torque on the rig and takes the worker out of its
\* loop.
C15_ClosedQueueStopsWorker ==
    [][(evCmd'.kind = "recv_none" /\ evCmd.kind # "recv_none")
         => /\ phase' # "running"
            /\ wire' = wire \o disable_torque(0).issued]_vars

\* A tick of the interval is due: the worker runs and the tick is within the
\* explored bounds.
TickDue == phase = "running" /\ Explored(Pushes, now + 1)

\* C16: a tick that is due is served, whatever the Command Queue holds and
\* however many commands are applied meanwhile, unless the worker stops
\* running (or the exploration ends) first.
C16_TicksNotStarved ==
    \A k \in 0..(MaxTicks - 1) :
        []((TickDue /\ now = k) => <>(now > k \/ ~TickDue))

C16_Witness ==
    /\ phase = "running"
    /\ evTick.kind = "tick"
    /\ evTick.pending
    /\ now >= 2
    /\ queue # <<>>

\* The worker has flushed its stats buffers at least once.
Flushed == stats_pub_period # 0 /\ stats_t0 # 0

\* C17: a flush leaves in the Stats Window the samples buffered since the
\* flush before it and nothing older.
C17_WindowResetAtFlush ==
    [][stats_t0' # stats_t0
         => /\ last_stats'.read_dt = Append(read_dt, now')
            /\ last_stats'.write_dt = write_dt]_vars

C11_TransportOnlyByWorker ==
    Constructed => /\ Cardinality(bus) <= 1
                   /\ \A o \in bus : o.by = WorkerThread

C11_Witness ==
    /\ phase = "running"
    /\ bus = {[by |-> WorkerThread, op |-> "read"]}
    /\ queue # <<>>
    /\ \E t \in GetterThreads : callers[t] = "get_last_position"

\* C19: while a transport operation is in progress the worker holds neither
\* the Position Cache's mutex nor the Stats Window's.
C19_NoLockAcrossTransport ==
    bus # {} => /\ WorkerThread \notin locks["last_position"]
                /\ WorkerThread \notin locks["last_stats"]

C19_Witness ==
    /\ bus = {[by |-> WorkerThread, op |-> "read"]}
    /\ now >= 2
    /\ last_stats.read_dt # <<>>
    /\ \E t \in GetterThreads : callers[t] = "get_stats"

\* C20: on one object of the Python class at most one transport operation
\* is in progress at any time, and it is run by the thread that holds the
\* mutex `inner`.
C20_BindingCallsSerialised ==
    phase = "python" => /\ Cardinality(bus) <= 1
                        /\ \A o \in bus : o.by \in locks["inner"]

C20_Witness ==
    /\ phase = "python"
    /\ wire # <<>>
    /\ \E t \in Producers, u \in Producers :
         /\ t # u
         /\ [by |-> t, op |-> callers[t]] \in bus
         /\ callers[u] # "idle"
         /\ u \notin locks["inner"]

\* C21: in every state of the worker the retry counter is the number of
\* failed tick reads since the last successful tick read (or since the
\* worker started), below, at and beyond the threshold, whatever commands
\* were handled in between.
C21_CounterCountsFailures ==
    Constructed => error_count = failsSince

C21_Witness ==
    /\ Constructed
    /\ read_allowed_retries >= 1
    /\ error_count > read_allowed_retries
    /\ evCmd.kind = "command"

\* C23: a snapshot in the Position Cache is the 9 values of one read whose
\* two grouped reads both answered, stamped with the time of that read; a
\* tick in which either grouped read failed leaves no snapshot of its own.
C23_SnapshotFromOneRead ==
    (Constructed /\ last_position.tag = "Ok")
        => /\ \E b \in ReadBases :
                last_position =
                    read_pos([tag |-> "Ok", val |-> RawPositions(b)],
                             last_position.pos.timestamp)
           /\ (evTick.kind = "tick" /\ ~evTick.ok)
                 => last_position.pos.timestamp < now

C23_Witness ==
    /\ Constructed
    /\ evTick.kind = "tick"
    /\ ~evTick.ok
    /\ last_position.tag = "Ok"
    /\ last_position.pos.timestamp >= 1
    /\ last_position.pos.stewart = SubSeq(RawPositions(1), 4, 9)

\* C28: once the handle is returned, the Position Cache holds a fault value
\* exactly when the retry counter has reached read_allowed_retries.
C28_FaultIffCounterAtThreshold ==
    Constructed
        => (last_position.tag = "Err" <=> error_count >= read_allowed_retries)

C28_Witness ==
    /\ Constructed
    /\ read_allowed_retries >= 2
    /\ error_count = read_allowed_retries
    /\ last_position.tag = "Err"

\* C24: with stats enabled the Stats Window (its three sample lists) changes
\* only in a step that flushes, i.e. one that takes stats_t0 anew.
C24_WindowChangesOnlyAtFlush ==
    [][last_stats' # last_stats => stats_t0' # stats_t0]_vars

\* The number of commands whose handle_commands(..).unwrap() returned.
Returned == Len(handled) - (IF phase = "panicked" THEN 1 ELSE 0)

C26_QueueBounded ==
    [][/\ Len(queue') <= Capacity
       /\ phase' = "running" => Len(accepted') - Len(handled') = Len(queue')
       /\ Len(accepted') > Len(accepted) => Len(queue) < Capacity
       /\ Len(waiters') < Len(waiters)
             => \/ Len(accepted') = Len(accepted) + 1
                \/ phase' = "panicked" /\ refused' = refused + Len(waiters)
      ]_vars

C26_Witness ==
    /\ phase = "running"
    /\ Len(queue) = Capacity
    /\ waiters # <<>>
    /\ Len(accepted) = Len(handled) + Capacity
    /\ now >= 1

\* C27: while the worker runs, a command buffered in the Command Queue is
\* dequeued and applied, however many ticks are due: the k-th command, once
\* buffered, is eventually handled.
C27_CommandsNotStarved ==
    \A k \in 1..MaxPush :
        []((phase = "running" /\ queue # <<>> /\ Len(handled) = k - 1)
              => <>(Len(handled) >= k))

C27_Witness ==
    /\ evTick.kind = "tick"
    /\ evTick.pending
    /\ now >= 2
    /\ Len(accepted) = 1
    /\ Len(handled) = 1
    /\ evCmd.kind = "command"

\* ------------------------------------------ the 13 variants of MotorCommand
\* One command of each variant of MotorCommand, and with them the commands
\* of Commands, whose goal positions are out of range.
Variants ==
    { SetAllGoalPositions(
        FullBodyPosition(0, <<3, 4, 5, 6, 7, 8>>, <<1, 2>>, 0)),
      SetStewartPlatformPosition(<<1, 2, 3, 4, 5, 6>>),
      SetBodyRotation(10),
      SetAntennasPositions(<<1, 2>>),
      EnableTorque,
      DisableTorque,
      SetStewartPlatformGoalCurrent(<<1, 2, 3, 4, 5, 6>>),
      SetStewartPlatformOperatingMode(1),
      SetAntennasOperatingMode(1),
      SetBodyRotationOperatingMode(1),
      EnableStewartPlatform(TRUE),
      EnableBodyRotation(FALSE),
      EnableAntennas(TRUE) } \cup Commands

VariantKinds == { command.kind : command \in Variants }

\* new() has returned the handle with stats_pub_period = None: the cache
\* holds the snapshot of the initial read and the worker runs.
InitVariants ==
    /\ phase = "running"
    /\ stats_pub_period = 0
    /\ read_allowed_retries \in 1..MaxRetries
    /\ init_i = 0
    /\ error_count = 0
    /\ last_position =
         read_pos(read_all_positions("ok", RawPositions(0)), 0)
    /\ before = last_position
    /\ queue = <<>>
    /\ waiters = <<>>
    /\ now = 0
    /\ tx = "held"
    /\ last_stats = ControlLoopStats(<<>>, <<>>, <<>>)
    /\ read_dt = <<>>
    /\ write_dt = <<>>
    /\ stats_t0 = 0
    /\ worker = [pc |-> "select"]
    /\ bus = {}
    /\ locks = [m \in Mutexes |-> {}]
    /\ callers = [t \in Producers |-> "idle"]
    /\ wire = <<>>
    /\ accepted = <<>>
    /\ refused = 0
    /\ handled = <<>>
    /\ failsSince = 0
    /\ evTick = NoEvent
    /\ evCmd = NoEvent

\* push_command with a command of any variant.
PushVariant ==
    /\ Constructed
    /\ tx = "held"
    /\ Pushes < VariantPushes
    /\ \E p \in Producers, command \in Variants :
         /\ ~IsWaiting(p)
         /\ push_command(p, command)
    /\ UNCHANGED << statsVars, stepVars, phase, read_allowed_retries, init_i,
                    error_count,
                    last_position, now, tx, wire, handled, before,
                    failsSince, evTick, evCmd >>

NextVariants ==
    \/ PushVariant
    \/ HandleCommand
    \/ Tick

SpecVariants == InitVariants /\ [][NextVariants]_vars

\* C22: the step that processes a command, whatever its variant and its
\* result, reads no position and leaves the Position Cache and the retry
\* counter as they were; a step that changes either of them is a timer tick.
C22_CommandsLeaveCacheAndCounter ==
    [][/\ handled' # handled
            => /\ last_position' = last_position
               /\ error_count' = error_count
               /\ before' = before
               /\ failsSince' = failsSince
               /\ now' = now
       /\ (last_position' # last_position \/ error_count' # error_count)
            => evTick'.kind = "tick" /\ now' = now + 1
      ]_vars

\* Every variant has been processed, some with Ok, some with an error.
C22_Witness ==
    /\ VariantKinds = { "SetAllGoalPositions", "SetStewartPlatformPosition",
                        "SetBodyRotation", "SetAntennasPositions",
                        "EnableTorque", "DisableTorque",
                        "SetStewartPlatformGoalCurrent",
                        "SetStewartPlatformOperatingMode",
                        "SetAntennasOperatingMode",
                        "SetBodyRotationOperatingMode",
                        "EnableStewartPlatform", "EnableBodyRotation",
                        "EnableAntennas" }
    /\ evCmd.kind = "command"
    /\ evCmd.command.kind = "EnableAntennas"
    /\ evCmd.res = "TransportError"
    /\ error_count >= 1
    /\ last_position.tag = "Ok"
    /\ now >= 2

\* ------------------------------------- read_pos, then SetAllGoalPositions
\* The bus addresses read_all_positions reads, in the order of the values
\* it returns, and the protocol family each is read with (sts3215 with
\* dph_v1, xl330 with dph_v2).
ReadIds ==
    << BODY_ROTATION_ID, ANTENNA_LEFT_ID, ANTENNA_RIGHT_ID >>
        \o STEWART_PLATFORM_IDS

ReadFamily(i) == IF i <= 3 THEN "v1" ELSE "v2"

\* The present positions the 9 motors answer with: motor i answers i, but
\* for one motor, which stands at a limit of the goal range, beyond a limit,
\* or at 0.
PresentValues ==
    {POSITION_MIN - 1, POSITION_MIN, 0, POSITION_MAX, POSITION_MAX + 1}

PresentPositions ==
    { [i \in 1..9 |-> IF i = k THEN v ELSE i] :
        k \in 1..9, v \in PresentValues }

InitFunctions ==
    /\ phase = "functions"
    /\ stats_pub_period = 0
    /\ read_allowed_retries = 0
    /\ InitCommon

functionsFrame ==
    << statsVars, stepVars, phase, read_allowed_retries, init_i, error_count,
       last_position, queue, waiters, now, tx, accepted, refused, handled,
       failsSince >>

\* read_pos(&mut c): the history keeps what the motors answered.
ReadPos ==
    /\ phase = "functions"
    /\ before = Uninit
    /\ \E outcome \in ReadOutcomes, raw \in PresentPositions :
         /\ before' = read_pos(read_all_positions(outcome, raw), 0)
         /\ evTick' = [kind |-> "read", val |-> raw]
    /\ UNCHANGED << functionsFrame, wire, evCmd >>

\* handle_commands(&mut c, SetAllGoalPositions { positions }) with the
\* snapshot read_pos returned.
ApplySnapshot ==
    /\ phase = "functions"
    /\ before.tag = "Ok"
    /\ evCmd = NoEvent
    /\ \E f \in 0..NWrites(SetAllGoalPositions(before.pos)) :
         LET command == SetAllGoalPositions(before.pos)
             r == handle_commands(command, f)
         IN  /\ wire' = wire \o r.issued
             /\ evCmd' = [kind |-> "command", command |-> command,
                          res |-> r.res, wireLen |-> Len(wire)]
    /\ UNCHANGED << functionsFrame, before, evTick >>

NextFunctions ==
    \/ ReadPos
    \/ ApplySnapshot

SpecFunctions == InitFunctions /\ [][NextFunctions]_vars

\* The goal positions written to bus address id of a protocol family.
WrittenTo(w, family, id) ==
    { w[jk[1]].vals[jk[2]] :
        jk \in { x \in (1..Len(w)) \X (1..9) :
                   /\ w[x[1]].reg = "goal_position"
                   /\ w[x[1]].family = family
                   /\ w[x[1]].ok
                   /\ x[2] <= Len(w[x[1]].ids)
                   /\ w[x[1]].ids[x[2]] = id } }

\* C29: read_pos puts the values read, in the order [body, antenna_left,
\* antenna_right, platform_1..6], into (body_yaw, antennas, stewart), and
\* SetAllGoalPositions applied with that snapshot writes to each of the 9
\* bus addresses, with the protocol family it was read with, the value that
\* was read from it and no other.
C29_ReadWriteMappingConsistent ==
    (phase = "functions" /\ before.tag = "Ok")
        => /\ before.pos.body_yaw = evTick.val[1]
           /\ before.pos.antennas = SubSeq(evTick.val, 2, 3)
           /\ before.pos.stewart = SubSeq(evTick.val, 4, 9)
           /\ (evCmd.kind = "command" /\ evCmd.res = "Ok")
                 => \A i \in 1..9 :
                       WrittenTo(wire, ReadFamily(i), ReadIds[i])
                           = {evTick.val[i]}

C29_Witness ==
    /\ phase = "functions"
    /\ evCmd.kind = "command"
    /\ evCmd.res = "Ok"
    /\ Len(wire) = 2
    /\ evTick.val[3] = POSITION_MIN
    /\ before.pos.antennas = <<2, POSITION_MIN>>

\* Every sample of the local buffer buf is in the list win of the window.
Published(buf, win) ==
    \A i \in 1..Len(buf) : \E j \in 1..Len(win) : win[j] = buf[i]

\* C30: the window a get_stats call clones (the Stats Window while the call
\* holds its mutex) never has the read-duration samples of the worker's
\* current flush period without its write-duration samples, or the other
\* way round.
C30_FlushSeenWhole ==
    \A t \in GetterThreads :
        (callers[t] = "get_stats" /\ read_dt # <<>> /\ write_dt # <<>>)
            => (Published(read_dt, last_stats.read_dt)
                    <=> Published(write_dt, last_stats.write_dt))

\* --------------------------------- ReachyMiniMotorController::new, the pings
\* The bus addresses ping_all_motors pings, in the order of its two for
\* loops, and the protocol family of each (sts3215::ping with dph_v1,
\* xl330::ping with dph_v2).
PingIds ==
    << BODY_ROTATION_ID, ANTENNA_LEFT_ID, ANTENNA_RIGHT_ID >>
        \o STEWART_PLATFORM_IDS

PingFamily(k) == IF k <= 3 THEN "v1" ELSE "v2"

\* One ping put on the serial line, and whether the motor answered it.
Ping(k, ok) ==
    [BusWrite(PingFamily(k), "ping", << PingIds[k] >>, <<>>)
        EXCEPT !.ok = ok]

\* The match on the result of one ping, `retries` being the motor's count:
\* Ok breaks out of the loop, Err with retries < MAX_RETRIES counts and
\* pings again, any other Err returns the error.
ping_match_one_more(retries, ok) ==
    IF ok THEN "break"
    ELSE IF retries <= MAX_RETRIES THEN "retry" ELSE "return"

ping_match(retries, ok) ==
    IF ok THEN "break"
    ELSE IF retries < MAX_RETRIES THEN "retry" ELSE "return"

\* serialport::new(..).open()? failed, or the port is open and
\* ping_all_motors starts with its first motor.
InitPing ==
    /\ phase = "open"
    /\ stats_pub_period = 0
    /\ read_allowed_retries = 0
    /\ InitCommon

pingFrame ==
    << statsVars, bus, locks, callers, read_allowed_retries, init_i,
       error_count, last_position, queue, waiters, now, tx, accepted,
       refused, handled, before, failsSince, evTick >>

OpenPort ==
    /\ phase = "open"
    /\ \E ok \in BOOLEAN :
         IF ok
         THEN /\ phase' = "pinging"
              /\ worker' = [pc |-> "ping", motor |-> 1, retries |-> 0]
         ELSE /\ phase' = "controller_err"
              /\ UNCHANGED worker
    /\ UNCHANGED << pingFrame, wire, evCmd >>

Unanswered(w) == Cardinality({ i \in 1..Len(w) : ~w[i].ok })

\* One turn of the `loop` of the motor the for loops are at: the ping and
\* the match on its result.  After the last motor's break ping_all_motors
\* returns Ok(()) and new returns Ok(controller); a returned error goes
\* through `?` and new returns it.
PingMotor ==
    /\ phase = "pinging"
    /\ \E ok \in BOOLEAN :
         /\ ~ok => Unanswered(wire) < MaxPingFailures
         /\ wire' = Append(wire, Ping(worker.motor, ok))
         /\ LET arm == ping_match(worker.retries, ok)
            IN  CASE arm = "retry" ->
                       /\ worker' = [worker EXCEPT !.retries = @ + 1]
                       /\ UNCHANGED << phase, evCmd >>
                  [] arm = "break" /\ worker.motor < Len(PingIds) ->
                       /\ worker' = [worker EXCEPT !.motor = @ + 1,
                                                   !.retries = 0]
                       /\ UNCHANGED << phase, evCmd >>
                  [] arm = "break" /\ worker.motor = Len(PingIds) ->
                       /\ worker' = [pc |-> "returned"]
                       /\ phase' = "controller_ok"
                       /\ evCmd' = [kind |-> "ping_all_motors", res |-> "Ok"]
                  [] arm = "return" ->
                       /\ worker' = [pc |-> "returned"]
                       /\ phase' = "controller_err"
                       /\ evCmd' = [kind |-> "ping_all_motors", res |-> "Err",
                                    id |-> PingIds[worker.motor],
                                    retries |-> worker.retries]
    /\ UNCHANGED pingFrame

NextPing ==
    \/ OpenPort
    \/ PingMotor

SpecPing == InitPing /\ [][NextPing]_vars

\* The pings sent to the k-th motor, and whether one of them was answered.
Attempts(k) ==
    Cardinality({ i \in 1..Len(wire) : wire[i] \in {Ping(k, TRUE),
                                                    Ping(k, FALSE)} })

Answered(k) == \E i \in 1..Len(wire) : wire[i] = Ping(k, TRUE)

PingReturned == evCmd.kind = "ping_all_motors"

\* C31: the motors are pinged in the order 11, 21, 22, 1..6, each at most
\* MAX_RETRIES + 1 = 4 times, counted from zero for each motor, and a motor
\* only after every motor before it has answered.  ping_all_motors returns
\* Ok exactly when all 9 have answered; it returns an error at the first
\* motor that left 4 pings in a row unanswered, the motors after it are not
\* pinged, and new returns a controller exactly when ping_all_motors
\* returned Ok.
C31_PingAllMotors ==
    phase \in {"pinging", "controller_ok", "controller_err"}
        => /\ MAX_RETRIES + 1 = 4
           /\ PingIds = <<11, 21, 22, 1, 2, 3, 4, 5, 6>>
           /\ \A i \in 1..Len(wire) :
                 \E k \in 1..9 : wire[i] \in {Ping(k, TRUE), Ping(k, FALSE)}
           /\ \A k \in 1..9 :
                 /\ Attempts(k) <= MAX_RETRIES + 1
                 /\ Attempts(k) > 0 => \A j \in 1..(k - 1) : Answered(j)
                 /\ Answered(k) =>
                       Cardinality({ i \in 1..Len(wire) :
                                       wire[i] = Ping(k, TRUE) }) = 1
           /\ \A i \in 1..Len(wire), j \in 1..Len(wire) :
                 \A k \in 1..9 :
                    (i < j /\ wire[i] = Ping(k, TRUE))
                        => wire[j] \notin {Ping(k, TRUE), Ping(k, FALSE)}
           /\ phase = "pinging" =>
                 /\ ~PingReturned
                 /\ Attempts(worker.motor) = worker.retries
                 /\ ~Answered(worker.motor)
           /\ (PingReturned /\ evCmd.res = "Ok")
                 <=> (wire # <<>> /\ phase # "pinging"
                        /\ \A k \in 1..9 : Answered(k))
           /\ (PingReturned /\ evCmd.res = "Err")
                 <=> \E k \in 1..9 :
                        /\ Attempts(k) = MAX_RETRIES + 1
                        /\ ~Answered(k)
           /\ (PingReturned /\ evCmd.res = "Err")
                 => \E k \in 1..9 :
                        /\ evCmd.id = PingIds[k]
                        /\ Attempts(k) = MAX_RETRIES + 1
                        /\ ~Answered(k)
                        /\ \A j \in (k + 1)..9 : Attempts(j) = 0
           /\ phase = "controller_ok" <=> (PingReturned /\ evCmd.res = "Ok")
           /\ PingReturned /\ evCmd.res = "Err" => phase = "controller_err"

C31_Witness ==
    /\ phase = "controller_err"
    /\ PingReturned
    /\ evCmd.id = 1
    /\ Attempts(4) = 4
    /\ Attempts(2) = 2
    /\ Answered(3)
    /\ Attempts(5) = 0

=============================================================================
